---- MODULE Spec2Model ----
(***************************************************************************)
(* The step executor of the autodirector backend.                          *)
(*                                                                         *)
(* The repository holds several generations of the same server; each has   *)
(* its own POST /run (or POST /api/run) handler.  `impl' names the         *)
(* generation that is deployed; it is chosen once and never changes.       *)
(*                                                                         *)
(*   p007   src/unnamed/part_007   POST /api/run, background task, polled  *)
(*   p010   src/unnamed/part_010   POST /api/run, background task, polled  *)
(*   p000   src/unnamed/part_000   POST /run, ctx = {lastImage, lastText}  *)
(*   p001   src/unnamed/part_001   POST /run, newestFileIn(RUNS_DIR)       *)
(*   p013   src/unnamed/part_013   POST /run, state = {lastFilePath, text} *)
(*   p014   src/unnamed/part_014   POST /run, module-level lastArtifactPath*)
(*   p009a  src/unnamed/part_009   POST /run at line 154, local lastShot,   *)
(*                                 results in the failure answer           *)
(*   p009c  src/unnamed/part_009   POST /run at line 1088, module-level    *)
(*                                 lastScreenshotPath                      *)
(*   p009d  src/unnamed/part_009   POST /run at line 1611, errors go to    *)
(*                                 the Express error handler               *)
(*   p009e  src/unnamed/part_009   POST /run at line 1986, email_last      *)
(*   srv    src/server.js          POST /run at line 535                   *)
(*                                                                         *)
(* One action of the model is one turn of the Node event loop: it starts   *)
(* at a request or at the return of an awaited external call and runs the  *)
(* handler's code up to the next await or to its end.                      *)
(*                                                                         *)
(* Step kinds are the abstract kinds of the step model:                    *)
(*   capture    screenshot_url / screenshot                                *)
(*   nav        goto / click / type / wait                                 *)
(*   extract    extract_links                                              *)
(*   send_last  gmail_send_last / email_last / email_results               *)
(*   send_text  gmail_send_text                                            *)
(*   forward    gmail_forward_last                                         *)
(*   bogus      an action name for which no generation has a branch        *)
(* A step is [kind, ok]; ok = FALSE says that the step's url is missing.   *)
(*                                                                         *)
(* The planners (POST /plan, POST /api/plan) are functions of the prompt,  *)
(* the environment and, in part_007, the answer of the planner oracle; a   *)
(* prompt is modelled by what the planners' patterns find in it.           *)
(*                                                                         *)
(* The monitor job store and its periodic sweep have no code under src/;   *)
(* `jobs', `web', `sweep' and `notes' model them from the specification's  *)
(* sections on monitoring and on failure isolation.                        *)
(*                                                                         *)
(* `call' holds one call of a step helper, extract_links or                *)
(* generate_image, of any generation with its input and its outcome.       *)
(***************************************************************************)
EXTENDS Integers, Sequences, FiniteSets, TLC

VARIABLES impl, mailCfg, run, gLast, dir, mails, resp, credits, inbox, plan,
          jobs, web, sweep, notes, call

\* The state of the executor and the planner.
exec == <<impl, mailCfg, run, gLast, dir, mails, resp, credits, inbox, plan>>

\* The job store, the watched pages, the scheduler sweep and its
\* notifications; the last call of a handler's helper function.
aside == <<jobs, web, sweep, notes, call>>

vars == <<exec, aside>>

(* ------------------------------ bounds -------------------------------- *)

MaxSteps == 3

MaxRuns == 2

MaxConcSteps == 1

MaxInbox == 2

MaxFwdSteps == 2

MaxAddrs == 2

RunIds == 1..MaxRuns

(* ------------------------- the generations ---------------------------- *)

Impls ==
  {"p007", "p010", "p000", "p001", "p013", "p014", "p009a", "p009c", "p009d", "p009e",
   "srv"}

Async(im) == im \in {"p007", "p010"}

Vocab(im) ==
  CASE im = "p007" -> {"nav", "capture", "forward"}
    [] im = "p010" -> {"capture", "send_last"}
    [] im \in {"p000", "p001", "p013", "srv"} ->
         {"capture", "extract", "send_last", "send_text"}
    [] OTHER -> {"capture", "send_last"}

HasHandler(im, kind) == kind \in Vocab(im)

UnknownPolicy(im) ==
  CASE im \in {"p007", "p010"} -> "silent"
    [] im \in {"p000", "p009a", "p009d", "p009e"} -> "log"
    [] OTHER -> "throw"

RejectsEmpty(im) == im \in {"p000", "p001", "p013", "p014", "p009d", "p009e", "srv"}

RunBrowser(im) == im \in {"p007", "p010", "p009e"}

ValidatesUrl(im) == im \in {"p001", "p014", "p009a", "p009c", "p009d", "srv"}

LogsBefore(im) == im \in {"p007", "p010"}

GlobalLast(im) == im \in {"p014", "p009c"}

\* part_007 keeps a credit balance per user and charges every run.
HasCredits(im) == im = "p007"

StartCost == 25

FreeCredits == 100

\* FREE_CREDITS_ON_SIGNUP: nothing, the price of one run, or the default.
SignupCredits == {0, StartCost, FreeCredits}

(* ------------------------------ values -------------------------------- *)

NoArt == <<0, 0>>

ArtName(im, r, i) == IF im = "p010" THEN <<r, 0>> ELSE <<r, i>>

NoMail ==
  [run |-> 0, step |-> 0, kind |-> "none", att |-> NoArt, body |-> "none", msg |-> 0]

Mail(r, i, kind, att, body) ==
  [run |-> r, step |-> i, kind |-> kind, att |-> att, body |-> body, msg |-> 0]

\* The sources of the messages are longer or not longer than the 100000
\* characters that forwardLastEmail keeps.
Sizes == {"short", "long"}

\* originalSource.slice(0, 100000): a long source is cut.
Slice(size) == IF size = "long" THEN "cut" ELSE "raw"

\* The mail forwardLastEmail sends for message number seq.
Fwd(r, i, seq, size) ==
  [Mail(r, i, "forward", NoArt, Slice(size)) EXCEPT !.msg = seq]

NoFault == [step |-> 0, cause |-> "none"]

Entry(tag, i, art, links) == [tag |-> tag, s |-> i, art |-> art, links |-> links]

NoReply == [shape |-> "none", ok |-> FALSE, error |-> "none"]

NoResp == [op |-> "none", id |-> 0, code |-> 0, status |-> "none"]

NoRun ==
  [id |-> 0, status |-> "none", plan |-> <<>>, idx |-> 0, pc |-> "idle", log |-> <<>>,
   arts |-> <<>>, ctxArt |-> NoArt, ctxText |-> "unset", pend |-> NoMail,
   started |-> <<>>, returned |-> 0, fault |-> NoFault, seq |-> 0, reply |-> NoReply,
   browser |-> "none"]

DirWrite(d, a) == Append(SelectSeq(d, LAMBDA x : x # a), a)

Newest(d) == IF d = <<>> THEN NoArt ELSE d[Len(d)]

(* ---------------------- the end of a run ------------------------------ *)

RECURSIVE Continue(_, _, _, _)

KeepsResultsOnError(im) == im \in {"p007", "p010", "p001", "p009a"}

\* A catch placed inside the loop: the fault is recorded and the loop goes on.
FailGoesOn(im, R, k, cause) ==
  Continue(im, TRUE, NoArt,
           [R EXCEPT !.status = "error", !.pend = NoMail,
                     !.fault = [step |-> k, cause |-> cause]])

\* A rejection nobody catches: the task ends and the status is never set.
FailLost(im, R, k, cause) == [R EXCEPT !.pc = "end", !.pend = NoMail]

ReplyShape(im) == IF im = "p009e" THEN "text" ELSE "json"

\* The answer of a synchronous handler that failed.  The early return for an
\* empty step list names its own message; a thrown error reaches the catch
\* block, which answers err.message, or (part_009:1611) passes it to the
\* error handler that answers "Server error".
ErrorReply(im, cause) ==
  [shape |-> ReplyShape(im), ok |-> FALSE,
   error |-> IF im = "p009d" /\ cause # "nosteps" THEN "generic" ELSE cause]

OkReply(im) == [shape |-> ReplyShape(im), ok |-> TRUE, error |-> "none"]

\* A catch block that sets the status and writes the message to the console
\* instead of the record's log.
FailSilent(im, R, k, cause) ==
  [R EXCEPT !.status = "error", !.pc = "end", !.pend = NoMail,
            !.fault = [step |-> k, cause |-> cause],
            !.reply = IF Async(im) THEN NoReply ELSE ErrorReply(im, cause),
            !.log = IF Async(im) \/ KeepsResultsOnError(im) THEN @ ELSE <<>>]

\* A catch block that answers the error alone in every generation.
FailDropsResults(im, R, k, cause) ==
  [R EXCEPT !.status = "error", !.pc = "end", !.pend = NoMail,
            !.fault = [step |-> k, cause |-> cause],
            !.reply = IF Async(im) THEN NoReply ELSE ErrorReply(im, cause),
            !.log = IF Async(im) THEN Append(@, Entry("ERROR", k, NoArt, cause)) ELSE <<>>]

\* The generation launches a browser for the run or for the step; part_014
\* shares one browser between all requests and never closes it.
OwnsBrowser(im) == im # "p014"

\* The helper that launches a browser for one step closes it in a finally
\* block.
ClosesOnFault(im) == im \in {"p001", "p013", "p009a"}

\* The browser of the run when a fault reaches the catch block: part_010
\* closes it after it has set the status, the helpers with a finally block
\* have closed it, the others leave it as it is.
FaultBrowser(im, R) ==
  IF R.browser # "open" THEN R.browser
  ELSE IF im = "p010" THEN "closing"
  ELSE IF ClosesOnFault(im) THEN "closed"
  ELSE "open"

\* The catch block around the step loop: the run ends in error and nothing
\* of it runs afterwards.  The background tasks push an ERROR line to the
\* record's log; the synchronous handlers answer {ok: false, error}, and only
\* part_001 and part_009:154 put the results gathered so far into that
\* answer.
Fail(im, R, k, cause) ==
  [R EXCEPT !.status = "error", !.pc = "end", !.pend = NoMail,
            !.fault = [step |-> k, cause |-> cause],
            !.browser = FaultBrowser(im, R),
            !.reply = IF Async(im) THEN NoReply ELSE ErrorReply(im, cause),
            !.log = IF Async(im) THEN Append(@, Entry("ERROR", k, NoArt, cause))
                    ELSE IF KeepsResultsOnError(im) THEN @ ELSE <<>>]

Done(im, R) ==
  [R EXCEPT !.status = "done", !.pc = "end",
            !.reply = IF Async(im) THEN NoReply ELSE OkReply(im)]

\* After the loop: the generations that hold one browser for the whole run
\* await its close before the status is set.
\* part_007 runs a plan that is the single step gmail_forward_last without a
\* browser.
SpecialForward(im, R) ==
  im = "p007" /\ Len(R.plan) = 1 /\ R.plan[1].kind = "forward"

\* The status set before the close is awaited.
FinishEarly(im, R) ==
  IF RunBrowser(im) /\ ~SpecialForward(im, R)
  THEN [R EXCEPT !.status = "done", !.pc = "close"]
  ELSE Done(im, R)

Finish(im, R) ==
  IF RunBrowser(im) /\ ~SpecialForward(im, R) THEN [R EXCEPT !.pc = "close"] ELSE Done(im, R)

(* ------------------------ dispatch of one step ------------------------ *)

StartStep(R) == [R EXCEPT !.idx = @ + 1, !.started = Append(@, R.idx + 1)]

\* A step whose log line is written only when its call has returned.
PreLogLate(im, R, tag) == R.log

PreLog(im, R, tag) ==
  IF LogsBefore(im) THEN Append(R.log, Entry(tag, R.idx, NoArt, "na")) ELSE R.log

LastEntry(R) ==
  IF R.log = <<>> THEN Entry("none", 0, NoArt, "na") ELSE R.log[Len(R.log)]

\* results.find(r => r.links) of part_001: the first result that has links.
FirstLinks(R) ==
  LET hit == {j \in 1..Len(R.log) : R.log[j].links # "na"}
  IN  IF hit = {} THEN "na"
      ELSE R.log[CHOOSE j \in hit : \A k \in hit : j <= k].links

\* What a notify-with-artifact step attaches.
LastArtifactOf(im, g, R) ==
  CASE im \in {"p000", "p013", "p009a", "p009d", "p009e"} -> R.ctxArt
    [] im \in {"p014", "p009c"} -> g
    [] im = "srv" -> LastEntry(R).art
    [] im = "p010" -> IF R.arts = <<>> THEN NoArt ELSE R.arts[1]
    [] OTHER -> NoArt

\* What the generation does when the notify step finds no artifact.
NothingPolicy(im) ==
  CASE im \in {"p000", "p013", "p014", "p009a", "p009c", "p009d", "p001"} -> "throw"
    [] im = "p009e" -> "skip"
    [] OTHER -> "send"

\* What the generation does when the mail transport has no credentials:
\* part_009:1611 does not look and lets sendMail fail.
NoConfigPolicy(im) ==
  CASE im \in {"p009e", "p010"} -> "skip"
    [] im = "p009d" -> "attempt"
    [] OTHER -> "throw"

TextBody(im, R) ==
  CASE im \in {"p000", "p013"} -> IF R.ctxText = "some" THEN "text" ELSE "placeholder"
    [] im = "p001" -> (CASE FirstLinks(R) = "some" -> "text"
                         [] FirstLinks(R) = "empty" -> "empty"
                         [] OTHER -> "placeholder")
    [] OTHER -> IF LastEntry(R).links = "some" THEN "text" ELSE "placeholder"

LastBody(im, att, R) ==
  IF att # NoArt THEN "file"
  ELSE IF im = "srv" /\ LastEntry(R).links = "some" THEN "text"
  ELSE IF im = "srv" THEN "placeholder"
  ELSE "noattachment"

\* A step the handler finishes without awaiting anything: the loop goes on
\* in the same turn.
SkipOn(im, cfg, g, R, tag) ==
  Continue(im, cfg, g,
           [R EXCEPT !.returned = @ + 1,
                     !.log = Append(@, Entry(tag, R.idx, NoArt, "na"))])

Await(R, pc, log, pend) == [R EXCEPT !.pc = pc, !.log = log, !.pend = pend]

\* The helper of a step launches its own browser unless the run has one.
StepBrowser(im, R) == IF RunBrowser(im) \/ ~OwnsBrowser(im) THEN R.browser ELSE "open"

\* The helper of a step has returned: its own browser is closed.
AfterCall(im, R) == IF ~RunBrowser(im) /\ R.browser = "open" THEN "closed" ELSE R.browser

DispatchBrowser(im, R, tag) ==
  IF ValidatesUrl(im) /\ ~R.plan[R.idx].ok
  THEN Fail(im, R, R.idx, "param")
  ELSE [Await(R, "browser", PreLog(im, R, tag), NoMail) EXCEPT !.browser = StepBrowser(im, R)]

DispatchSendLast(im, cfg, g, R) ==
  LET att == LastArtifactOf(im, g, R)
      m   == Mail(R.id, R.idx, "send_last", att, LastBody(im, att, R))
  IN  IF im = "p001" THEN Await(R, "fs", R.log, NoMail)
      ELSE IF att = NoArt /\ NothingPolicy(im) = "throw" THEN Fail(im, R, R.idx, "nothing")
      ELSE IF att = NoArt /\ NothingPolicy(im) = "skip" THEN SkipOn(im, cfg, g, R, "skip")
      ELSE IF ~cfg /\ NoConfigPolicy(im) = "throw" THEN Fail(im, R, R.idx, "config")
      ELSE IF ~cfg /\ NoConfigPolicy(im) = "skip" THEN
             SkipOn(im, cfg, g, [R EXCEPT !.log = PreLog(im, R, "send_last")], "warn")
      ELSE Await(R, "mail", PreLog(im, R, "send_last"), m)

\* A notify-with-text that refuses to send when the run has no text.
DispatchSendTextStrict(im, cfg, R) ==
  IF TextBody(im, R) = "placeholder" THEN Fail(im, R, R.idx, "nothing")
  ELSE IF ~cfg THEN Fail(im, R, R.idx, "config")
  ELSE Await(R, "mail", R.log, Mail(R.id, R.idx, "send_text", NoArt, TextBody(im, R)))

DispatchSendText(im, cfg, R) ==
  IF ~cfg THEN Fail(im, R, R.idx, "config")
  ELSE Await(R, "mail", R.log, Mail(R.id, R.idx, "send_text", NoArt, TextBody(im, R)))

\* forwardLastEmail up to imap.connect: the credentials are checked first.
DispatchForward(im, cfg, R) ==
  IF ~cfg THEN Fail(im, [R EXCEPT !.log = PreLog(im, R, "forward")], R.idx, "config")
  ELSE Await(R, "imap", PreLog(im, R, "forward"), NoMail)

Dispatch(im, cfg, g, R) ==
  LET kind == R.plan[R.idx].kind
  IN  CASE kind \in {"capture", "nav", "extract"} -> DispatchBrowser(im, R, kind)
        [] kind = "send_last" -> DispatchSendLast(im, cfg, g, R)
        [] kind = "send_text" -> DispatchSendText(im, cfg, R)
        [] OTHER -> DispatchForward(im, cfg, R)

\* A step whose action has no branch in the handler.
Unknown(im, cfg, g, R) ==
  LET i == R.idx + 1
      S == [R EXCEPT !.idx = i]
  IN  CASE UnknownPolicy(im) = "throw" -> Fail(im, S, i, "unknown")
        [] UnknownPolicy(im) = "log" ->
             Continue(im, cfg, g,
                      [S EXCEPT !.log = Append(@, Entry("unknown", i, NoArt, "na"))])
        [] OTHER -> Continue(im, cfg, g, S)

Awaiting(R) == R.pc \in {"browser", "mail", "fs", "imap", "fetch", "logout"}

\* A loop that does not await its handler: the next handler starts at once.
ContinueNoAwait(im, cfg, g, R) ==
  IF R.idx >= Len(R.plan) THEN Finish(im, R)
  ELSE IF ~HasHandler(im, R.plan[R.idx + 1].kind) THEN Unknown(im, cfg, g, R)
  ELSE LET S == Dispatch(im, cfg, g, StartStep(R))
       IN  IF Awaiting(S) /\ S.idx < Len(S.plan)
           THEN [S EXCEPT !.started = Append(@, S.idx + 1)]
           ELSE S

\* The step loop from the step after R.idx up to the next await or the end.
Continue(im, cfg, g, R) ==
  IF R.idx >= Len(R.plan) THEN Finish(im, R)
  ELSE IF ~HasHandler(im, R.plan[R.idx + 1].kind) THEN Unknown(im, cfg, g, R)
  ELSE Dispatch(im, cfg, g, StartStep(R))

(* ------------------------------ inputs -------------------------------- *)

ParamKind(im) == IF im = "p007" THEN "nav" ELSE "capture"

Step(kind, ok) == [kind |-> kind, ok |-> ok]

StepsOf(im) ==
  {Step(k, TRUE) : k \in Vocab(im) \cup {"bogus"}} \cup {Step(ParamKind(im), FALSE)}

SeqsUpTo(S, n) == UNION {[1..k -> S] : k \in 0..n}

Plans(im) == SeqsUpTo(StepsOf(im), MaxSteps)

ConcSteps(im) ==
  {Step(k, TRUE) : k \in Vocab(im) \cap {"capture", "send_last"}}

ConcPlans(im) == SeqsUpTo(ConcSteps(im), MaxConcSteps)

(* ----------------------------- the planner ---------------------------- *)

\* A prompt is what the planners' regular expressions find in it:
\*   shot   the word screenshot          fwd    the word forward
\*   mailw  the word email (in a phrase `email ... to')
\*   links  the words `extract links'    url    one http(s) URL
\*   addrs  the e-mail addresses, in the order of the text
\*   cut    the text is longer than 800 characters and its last address
\*          lies beyond them
\* The prompts have no create-image and no pdf phrase.
Addrs == {"own", "a"}

AddrLists == SeqsUpTo(Addrs, MaxAddrs)

Texts ==
  {t \in [shot : BOOLEAN, fwd : BOOLEAN, mailw : BOOLEAN, links : BOOLEAN,
          url : BOOLEAN, addrs : AddrLists, cut : BOOLEAN] :
     t.cut => t.addrs # <<>>}

NoText ==
  [shot |-> FALSE, fwd |-> FALSE, mailw |-> FALSE, links |-> FALSE, url |-> FALSE,
   addrs |-> <<>>, cut |-> FALSE]

\* What the call of the planner oracle gives: the call fails, the content is
\* not JSON, {steps: [goto, screenshot]}, {steps: [a step of no known
\* action]}, one bare step {action: "gmail_forward_last", to}, or {}.
Oracle == {"fail", "garbage", "steps", "badkind", "single", "nosteps"}

\* process.env.GMAIL_USER: the address "own" when the mail account is set.
GmailUser(cfg) == IF cfg THEN "own" ELSE "unset"

PStep(kind, to) == [kind |-> kind, to |-> to]

\* An answer with a step list.
PlanOk(steps) == [status |-> "ok", form |-> "seq", steps |-> steps]

\* {ok: false, error}: an answer without steps.
PlanError == [status |-> "error", form |-> "absent", steps |-> <<>>]

\* The handler's promise rejects and no answer is sent.
PlanRejected == [status |-> "rejected", form |-> "absent", steps |-> <<>>]

NoPlan == [text |-> NoText, oracle |-> "unused", out |-> [status |-> "none", form |-> "seq", steps |-> <<>>]]

\* text.match(address)[0], or null
FirstAddr(as) == IF as = <<>> THEN "null" ELSE as[1]

\* if (to) steps.push({action, to})
WithTo(steps, kind, to) == IF to = "null" THEN steps ELSE Append(steps, PStep(kind, to))

\* (req.body.prompt || "").slice(0, 800): the addresses left in the text.
Slice800(t) == IF t.cut THEN SubSeq(t.addrs, 1, Len(t.addrs) - 1) ELSE t.addrs

\* The first address whatever it is.
FindAny(as, own) == FirstAddr(as)

\* emailMatches.find(e => e.toLowerCase() !== gmailUser)
FindOther(as, own) ==
  LET hit == {j \in 1..Len(as) : as[j] # own}
  IN  IF hit = {} THEN "null" ELSE as[CHOOSE j \in hit : \A k \in hit : j <= k]

\* JSON.parse of the oracle's content in a try with an empty catch; the
\* result is answered as it is, with valid: Array.isArray(flow.steps).
OracleOut(o) ==
  CASE o = "fail" -> PlanRejected
    [] o = "garbage" -> PlanOk(<<>>)
    [] o = "steps" -> PlanOk(<<PStep("nav", "null"), PStep("capture", "null")>>)
    [] o = "badkind" -> PlanOk(<<PStep("bogus", "null")>>)
    [] o = "single" -> [status |-> "ok", form |-> "object", steps |-> <<>>]
    [] OTHER -> [status |-> "ok", form |-> "absent", steps |-> <<>>]

\* The forward short-circuit of POST /api/plan.
ForwardMatch(cfg, t) ==
  t.mailw /\ t.fwd /\ FindOther(Slice800(t), GmailUser(cfg)) # "null"

\* POST /api/plan of part_007 (and part_012:455).
Plan007(cfg, t, o) ==
  IF ForwardMatch(cfg, t)
  THEN PlanOk(<<PStep("forward", FindOther(Slice800(t), GmailUser(cfg)))>>)
  ELSE OracleOut(o)

\* plan() of part_001.
Plan001(t) ==
  LET to == FirstAddr(t.addrs)
  IN  CASE t.shot /\ t.url -> PlanOk(WithTo(<<PStep("capture", "null")>>, "send_last", to))
        [] t.links /\ t.url -> PlanOk(WithTo(<<PStep("extract", "null")>>, "send_text", to))
        [] t.url -> PlanOk(WithTo(<<PStep("capture", "null")>>, "send_last", to))
        [] OTHER -> PlanError

\* POST /plan of server.js: the URL pattern also matches the domain of an
\* address.
PlanSrv(t) ==
  LET to  == FirstAddr(t.addrs)
      url == t.url \/ t.addrs # <<>>
  IN  CASE t.shot /\ url -> PlanOk(WithTo(<<PStep("capture", "null")>>, "send_last", to))
        [] t.links /\ url -> PlanOk(WithTo(<<PStep("extract", "null")>>, "send_text", to))
        [] OTHER -> PlanOk(<<>>)

\* POST /plan of part_014: email || GMAIL_USER || "you@example.com".
Plan014(cfg, t) ==
  LET to == IF t.addrs # <<>> THEN t.addrs[1] ELSE IF cfg THEN "own" ELSE "default"
  IN  IF ~t.url THEN PlanError
      ELSE PlanOk(<<PStep("capture", "null"), PStep("send_last", to)>>)

\* POST /plan of part_009:1585: email or GMAIL_USER (which may be "").
Plan009d(cfg, t) ==
  LET to == IF t.addrs # <<>> THEN t.addrs[1] ELSE GmailUser(cfg)
  IN  IF ~t.url THEN PlanError
      ELSE PlanOk(<<PStep("capture", "null"), PStep("send_last", to)>>)

\* parsePrompt of part_000.
Plan000(t) ==
  LET to == FirstAddr(t.addrs)
      s1 == IF t.shot /\ t.url THEN <<PStep("capture", "null")>> ELSE <<>>
      s2 == IF t.links /\ t.url THEN Append(s1, PStep("extract", "null")) ELSE s1
  IN  PlanOk(IF to = "null" \/ s2 = <<>> THEN s2
             ELSE IF t.links /\ t.url THEN Append(s2, PStep("send_text", to))
             ELSE Append(s2, PStep("send_last", to)))

\* POST /plan of part_013: the notify step is pushed with to = null too.
Plan013(t) ==
  LET to == FirstAddr(t.addrs)
  IN  CASE t.shot /\ t.url -> PlanOk(<<PStep("capture", "null"), PStep("send_last", to)>>)
        [] t.links /\ t.url -> PlanOk(<<PStep("extract", "null"), PStep("send_text", to)>>)
        [] OTHER -> PlanError

\* planFromPrompt of part_009:1898: a prompt it cannot read gets the step
\* {action: "help"}.
Plan009e(t) ==
  LET to == FirstAddr(t.addrs)
      s1 == IF t.shot /\ t.url THEN <<PStep("capture", "null")>> ELSE <<>>
      s2 == IF t.mailw /\ to # "null" THEN Append(s1, PStep("send_last", to)) ELSE s1
      s3 == IF s2 = <<>> /\ t.url
            THEN WithTo(<<PStep("capture", "null")>>, "send_last", to) ELSE s2
  IN  PlanOk(IF s3 = <<>> THEN <<PStep("bogus", "null")>> ELSE s3)

\* planFromPrompt of part_009:118: the URL pattern also matches the domain
\* of an address.
Plan009a(t) ==
  LET to == FirstAddr(t.addrs)
      s1 == IF t.url \/ t.addrs # <<>> THEN <<PStep("capture", "null")>> ELSE <<>>
  IN  PlanOk(WithTo(s1, "send_last", to))

\* The planners of part_010:30 and part_009:1072 read fixed phrases
\* (`email to X', `screenshot X and email it to Y') and are not modelled.
PlanImpls == Impls \ {"p010", "p009c"}

UsesOracle(im, cfg, t) == im = "p007" /\ ~ForwardMatch(cfg, t)

Planner(im, cfg, t, o) ==
  CASE im = "p007" -> Plan007(cfg, t, o)
    [] im = "p001" -> Plan001(t)
    [] im = "srv" -> PlanSrv(t)
    [] im = "p014" -> Plan014(cfg, t)
    [] im = "p009d" -> Plan009d(cfg, t)
    [] im = "p000" -> Plan000(t)
    [] im = "p013" -> Plan013(t)
    [] im = "p009a" -> Plan009a(t)
    [] OTHER -> Plan009e(t)

\* The steps the executor iterates when the client posts the planner's
\* answer: flow.steps || [] (part_007:119), or
\* Array.isArray(req.body.steps) ? req.body.steps : [].
AsSteps(out) ==
  IF out.form = "seq" THEN [j \in 1..Len(out.steps) |-> Step(out.steps[j].kind, TRUE)]
  ELSE <<>>

\* The INBOX when the server starts: empty, or one message of either size.
Inboxes == {<<>>} \cup {<<size>> : size \in Sizes}

NewRun(r, p) == [NoRun EXCEPT !.id = r, !.status = "running", !.plan = p]

(* --------------------- the job store and the sweep -------------------- *)

MaxJobs == 2

MaxSweeps == 2

MaxContent == 2

\* The pages that monitors watch, and what a fetch of a page can return.
Urls == {"u1", "u2"}

Contents == 1..MaxContent

\* The fingerprint of fetched content: a cryptographic hash of its bytes.
\* Different contents have different fingerprints.
Fingerprint(c) == c

\* last_fingerprint = null
NoFingerprint == 0

\* The Monitor that an add_monitor step appends to the job store.
Monitor(u) == [url |-> u, fp |-> NoFingerprint]

\* The sweep: the job it is at, the fingerprint it has computed for it, the
\* jobs whose fetch it has attempted, the jobs that failed, and the counts of
\* its summary {ok, processed, changed}.
NoSweep ==
  [pc |-> "idle", no |-> 0, i |-> 0, got |-> NoFingerprint, tried |-> {}, failed |-> {},
   processed |-> 0, changed |-> 0]

\* A comparison that takes the missing baseline for a change.
ChangedAlways(fp, h) == fp # h

\* The content differs from the baseline, and there is a baseline.
ChangedFrom(fp, h) == fp # NoFingerprint /\ fp # h

\* The sweep goes to its next job, or ends after the last one.
SweepOn(S, n) ==
  IF S.i < n THEN [S EXCEPT !.pc = "fetch", !.i = @ + 1] ELSE [S EXCEPT !.pc = "idle"]

\* A sweep that ends at the first job that fails.
JobFailedAborts(S, n) == [S EXCEPT !.failed = @ \cup {S.i}, !.pc = "idle"]

\* A job's external call failed: the failure is logged and the sweep goes on
\* with the remaining jobs.
JobFailed(S, n) == SweepOn([S EXCEPT !.failed = @ \cup {S.i}], n)

JobDone(S, n) == SweepOn([S EXCEPT !.processed = @ + 1], n)

Note(j, no, fp) == [job |-> j, no |-> no, fp |-> fp]

(* ------------------------ helper function calls ----------------------- *)

NoCall == [fn |-> "none"]

MaxAnchors == 3

\* The extract_links helpers: extractLinks of server.js:416, part_000:63,
\* part_001:138, part_012:99 and part_013:93, and topLinks of part_006:537.
LinkGens == {"srv", "p000", "p001", "p012", "p013", "p006"}

\* The hrefs of a page's anchors, resolved: three documents, the first of
\* them also with a fragment, and an address link.  An anchor has an href and
\* a visible text of length 0, 1 or 2.
Hrefs == {"d1", "d1#x", "d2", "d3", "mailto"}

Anchors == [href : Hrefs, text : 0..2]

Pages == SeqsUpTo(Anchors, MaxAnchors)

\* step.count of the request.  A step without count is handled as one with
\* count 0: every caller writes step.count || d, or lets the default of the
\* parameter and Number(count) || d do the same.
Counts == {-1, 0, 1, 2, 3, 21}

\* The count that a generation's caller can pass: POST /run of part_006
\* takes it from parsePrompt, which always sets 3.
CountsOf(g) == IF g = "p006" THEN {3} ELSE Counts

Min2(a, b) == IF a < b THEN a ELSE b

Max2(a, b) == IF a > b THEN a ELSE b

\* Array.prototype.slice(0, e)
JsSlice(q, e) ==
  SubSeq(q, 1, IF e < 0 THEN Max2(0, Len(q) + e) ELSE Min2(e, Len(q)))

\* step.count || d, and the default of the parameter
OrDefault(c, d) == IF c = 0 THEN d ELSE c

\* new URL(u) with hash and search emptied
Normalize(h) == IF h = "d1#x" THEN "d1" ELSE h

HrefLen(h) == IF h = "d1#x" THEN 2 ELSE 1

\* The filter of the generation's page script.
Passes(g, a) ==
  CASE g \in {"srv", "p000", "p013"} -> a.href # "mailto"
    [] OTHER -> a.text > 0

\* part_000 and part_013 return the hrefs alone.
EntryOf(g, a) == IF g \in {"p000", "p013"} THEN [href |-> a.href, text |-> 0] ELSE a

Filtered(g, page) ==
  LET kept == SelectSeq(page, LAMBDA a : Passes(g, a))
  IN  [n \in 1..Len(kept) |-> EntryOf(g, kept[n])]

RECURSIVE DedupeBy(_, _, _)

\* The entries whose key was not seen before, in page order.
DedupeBy(q, seen, exact) ==
  IF q = <<>> THEN <<>>
  ELSE LET key == IF exact THEN Head(q).href ELSE Normalize(Head(q).href)
       IN  IF key \in seen THEN DedupeBy(Tail(q), seen, exact)
           ELSE <<Head(q)>> \o DedupeBy(Tail(q), seen \cup {key}, exact)

\* (a, b) => (b.text.length - a.text.length) || (b.href.length - a.href.length)
Before(a, b) ==
  a.text > b.text \/ (a.text = b.text /\ HrefLen(a.href) > HrefLen(b.href))

RECURSIVE Insert(_, _)

Insert(q, a) ==
  IF q = <<>> THEN <<a>>
  ELSE IF Before(a, Head(q)) THEN <<a>> \o q
  ELSE <<Head(q)>> \o Insert(Tail(q), a)

RECURSIVE SortLinks(_)

\* Array.prototype.sort with that comparison: stable.
SortLinks(q) == IF q = <<>> THEN <<>> ELSE Insert(SortLinks(SubSeq(q, 1, Len(q) - 1)), q[Len(q)])

\* The fallback of topLinks: the input URL itself.
UrlEntry == [href |-> "url", text |-> 1]

\* extractLinks(url, count) / topLinks(url, limit) as the step handler calls
\* it with step.count = c, on a page with the given anchors.
ExtractLinks(g, page, c) ==
  LET f == Filtered(g, page)
  IN  CASE g = "srv" -> JsSlice(f, Max2(1, Min2(20, OrDefault(c, 3))))
        [] g = "p012" -> JsSlice(f, Max2(1, Min2(20, OrDefault(c, 5))))
        [] g = "p000" -> JsSlice(DedupeBy(f, {}, TRUE), Max2(1, OrDefault(c, 3)))
        [] g = "p001" -> JsSlice(JsSlice(f, 100), OrDefault(c, 5))
        [] g = "p013" -> JsSlice(DedupeBy(f, {}, TRUE), OrDefault(c, 3))
        [] OTHER ->
             LET picked == JsSlice(SortLinks(DedupeBy(f, {}, FALSE)), OrDefault(c, 3))
             IN  IF picked # <<>> THEN picked ELSE <<UrlEntry>>

(* ------------------------------ actions ------------------------------- *)

Init ==
  /\ impl \in Impls
  /\ mailCfg \in BOOLEAN
  /\ run = [r \in RunIds |-> NoRun]
  /\ gLast = NoArt
  /\ dir = <<>>
  /\ mails = {}
  /\ resp = NoResp
  /\ credits \in (IF HasCredits(impl) THEN SignupCredits ELSE {0})
  /\ inbox \in (IF HasHandler(impl, "forward") THEN Inboxes ELSE {<<>>})
  /\ plan = NoPlan
  /\ jobs = <<>>
  /\ web = [u \in Urls |-> 1]
  /\ sweep = NoSweep
  /\ notes = <<>>
  /\ call = NoCall

Fresh(r) == run[r].status = "none" /\ \A q \in RunIds : q < r => run[q].status # "none"

\* POST /run of the synchronous generations, up to its first await.
Submit(r, p) ==
  /\ ~Async(impl)
  /\ Fresh(r)
  /\ run' = [run EXCEPT ![r] =
       IF p = <<>> /\ RejectsEmpty(impl) THEN Fail(impl, NewRun(r, p), 0, "nosteps")
       ELSE IF RunBrowser(impl) THEN [NewRun(r, p) EXCEPT !.pc = "launch"]
       ELSE Continue(impl, mailCfg, gLast, NewRun(r, p))]
  /\ UNCHANGED <<aside, impl, mailCfg, credits, inbox, plan, gLast, dir, mails, resp>>

\* A POST /api/run that charges without looking at the balance.
AcceptUnchecked(r, p) ==
  /\ Async(impl)
  /\ Fresh(r)
  /\ credits' = IF HasCredits(impl) THEN credits - StartCost ELSE credits
  /\ run' = [run EXCEPT ![r] = [NewRun(r, p) EXCEPT !.pc = "accepted"]]
  /\ resp' = [op |-> "post", id |-> r, code |-> 200, status |-> "running"]
  /\ UNCHANGED <<aside, impl, mailCfg, inbox, plan, gLast, dir, mails>>

\* POST /api/run: the run is charged, the record is stored and the id is
\* answered.
Accept(r, p) ==
  /\ Async(impl)
  /\ Fresh(r)
  /\ HasCredits(impl) => credits >= StartCost
  /\ credits' = IF HasCredits(impl) THEN credits - StartCost ELSE credits
  /\ run' = [run EXCEPT ![r] = [NewRun(r, p) EXCEPT !.pc = "accepted"]]
  /\ resp' = [op |-> "post", id |-> r, code |-> 200, status |-> "running"]
  /\ UNCHANGED <<aside, impl, mailCfg, inbox, plan, gLast, dir, mails>>

\* POST /api/run of a user whose balance is below the price: 402 Low credits.
Reject ==
  /\ HasCredits(impl)
  /\ credits < StartCost
  /\ resp' = [op |-> "post", id |-> 0, code |-> 402, status |-> "none"]
  /\ resp' # resp
  /\ UNCHANGED <<aside, impl, mailCfg, credits, inbox, plan, run, gLast, dir, mails>>

\* A background task without the no-browser path.
StartAlwaysLaunch(r) ==
  /\ run[r].pc = "accepted"
  /\ run' = [run EXCEPT ![r] = [run[r] EXCEPT !.pc = "launch"]]
  /\ UNCHANGED <<aside, impl, mailCfg, credits, inbox, plan, gLast, dir, mails, resp>>

\* The background task of POST /api/run, up to its first await.
Start(r) ==
  /\ run[r].pc = "accepted"
  /\ run' = [run EXCEPT ![r] =
       IF SpecialForward(impl, run[r])
       THEN DispatchForward(impl, mailCfg, StartStep(run[r]))
       ELSE [run[r] EXCEPT !.pc = "launch"]]
  /\ UNCHANGED <<aside, impl, mailCfg, credits, inbox, plan, gLast, dir, mails, resp>>

\* chromium.launch / newContext / newPage of a run-wide browser returns.
LaunchReturn(r, ok) ==
  /\ run[r].pc = "launch"
  /\ run' = [run EXCEPT ![r] =
       IF ok THEN Continue(impl, mailCfg, gLast, [run[r] EXCEPT !.browser = "open"])
       ELSE Fail(impl, run[r], 0, "driver")]
  /\ UNCHANGED <<aside, impl, mailCfg, credits, inbox, plan, gLast, dir, mails, resp>>

AtBrowser(r, kind) ==
  /\ run[r].pc = "browser"
  /\ run[r].plan[run[r].idx].kind = kind

LocalArt(im) == im \in {"p000", "p013", "p009a", "p009d", "p009e"}

LocalText(im) == im \in {"p000", "p013"}

Captured(im, R, a) ==
  [R EXCEPT !.returned = @ + 1,
            !.arts = Append(@, a),
            !.browser = AfterCall(im, R),
            !.ctxArt = IF LocalArt(im) THEN a ELSE @,
            !.log = IF Async(im) THEN @ ELSE Append(@, Entry("capture", R.idx, a, "na"))]

\* The browser calls of a capture step return.
CaptureReturn(r, ok) ==
  /\ AtBrowser(r, "capture")
  /\ ok => run[r].plan[run[r].idx].ok
  /\ LET a == ArtName(impl, r, run[r].idx)
         g == IF ok /\ GlobalLast(impl) THEN a ELSE gLast
     IN  /\ gLast' = g
         /\ dir' = IF ok THEN DirWrite(dir, a) ELSE dir
         /\ run' = [run EXCEPT ![r] =
              IF ok THEN Continue(impl, mailCfg, g, Captured(impl, run[r], a))
              ELSE Fail(impl, run[r], run[r].idx, "driver")]
  /\ UNCHANGED <<aside, impl, mailCfg, credits, inbox, plan, mails, resp>>

\* The page call of a goto / click / type / wait step returns.
NavReturn(r, ok) ==
  /\ AtBrowser(r, "nav")
  /\ ok => run[r].plan[run[r].idx].ok
  /\ run' = [run EXCEPT ![r] =
       IF ok THEN Continue(impl, mailCfg, gLast, [run[r] EXCEPT !.returned = @ + 1])
       ELSE Fail(impl, run[r], run[r].idx, "driver")]
  /\ UNCHANGED <<aside, impl, mailCfg, credits, inbox, plan, gLast, dir, mails, resp>>

Extracted(im, R, links) ==
  [R EXCEPT !.returned = @ + 1,
            !.ctxText = IF LocalText(im) THEN links ELSE @,
            !.browser = AfterCall(im, R),
            !.log = Append(@, Entry("extract", R.idx, NoArt, links))]

\* extractLinks returns: out is "some", "empty" or "fail".
ExtractReturn(r, out) ==
  /\ AtBrowser(r, "extract")
  /\ run' = [run EXCEPT ![r] =
       IF out = "fail" THEN Fail(impl, run[r], run[r].idx, "driver")
       ELSE Continue(impl, mailCfg, gLast, Extracted(impl, run[r], out))]
  /\ UNCHANGED <<aside, impl, mailCfg, credits, inbox, plan, gLast, dir, mails, resp>>

\* newestFileIn(RUNS_DIR) of part_001 returns.
FsReturn(r) ==
  /\ run[r].pc = "fs"
  /\ LET R == run[r]
         a == Newest(dir)
     IN  run' = [run EXCEPT ![r] =
           IF a = NoArt THEN Fail(impl, R, R.idx, "nothing")
           ELSE IF ~mailCfg THEN Fail(impl, R, R.idx, "config")
           ELSE Await(R, "mail", R.log, Mail(r, R.idx, "send_last", a, "file"))]
  /\ UNCHANGED <<aside, impl, mailCfg, credits, inbox, plan, gLast, dir, mails, resp>>

MailTag(im, kind) == IF Async(im) THEN "sent" ELSE kind

Mailed(im, R) ==
  [R EXCEPT !.returned = @ + 1, !.pend = NoMail,
            !.log = Append(@, Entry(MailTag(im, R.pend.kind), R.idx, NoArt, "na"))]

\* A fetch of the oldest message instead of the newest.
SelectedFirst(R, exists) ==
  [R EXCEPT !.seq = IF exists = 0 THEN 0 ELSE 1,
            !.pc = IF exists = 0 THEN "logout" ELSE "fetch"]

\* if (!box.exists) { logout; throw }; const seq = box.exists
Selected(R, exists) ==
  [R EXCEPT !.seq = exists, !.pc = IF exists = 0 THEN "logout" ELSE "fetch"]

\* imap.connect and selectMailbox("INBOX") return: seq = box.exists.
ImapReturn(r, ok) ==
  /\ run[r].pc = "imap"
  /\ run' = [run EXCEPT ![r] =
       IF ok THEN Selected(run[r], Len(inbox))
       ELSE Fail(impl, run[r], run[r].idx, "driver")]
  /\ UNCHANGED <<aside, impl, mailCfg, credits, inbox, plan, gLast, dir, mails, resp>>

\* imap.fetchOne(seq) returns the message with that number.
FetchReturn(r, ok) ==
  /\ run[r].pc = "fetch"
  /\ run' = [run EXCEPT ![r] =
       IF ok THEN [run[r] EXCEPT !.pc = "logout",
                                 !.pend = Fwd(r, run[r].idx, run[r].seq, inbox[run[r].seq])]
       ELSE Fail(impl, run[r], run[r].idx, "driver")]
  /\ UNCHANGED <<aside, impl, mailCfg, credits, inbox, plan, gLast, dir, mails, resp>>

\* imap.logout returns: an empty mailbox is a fault, a fetched message goes
\* to transporter.sendMail.
LogoutReturn(r, ok) ==
  /\ run[r].pc = "logout"
  /\ run' = [run EXCEPT ![r] =
       IF ~ok THEN Fail(impl, run[r], run[r].idx, "driver")
       ELSE IF run[r].seq = 0 THEN Fail(impl, run[r], run[r].idx, "empty")
       ELSE [run[r] EXCEPT !.pc = "mail"]]
  /\ UNCHANGED <<aside, impl, mailCfg, credits, inbox, plan, gLast, dir, mails, resp>>

\* A message is delivered to the mailbox of the service.
Arrive(size) ==
  /\ HasHandler(impl, "forward")
  /\ Len(inbox) < MaxInbox
  /\ inbox' = Append(inbox, size)
  /\ UNCHANGED <<aside, impl, mailCfg, credits, plan, run, gLast, dir, mails, resp>>

\* transporter.sendMail returns.
MailReturn(r, ok) ==
  /\ run[r].pc = "mail"
  /\ ok => mailCfg
  /\ mails' = IF ok THEN mails \cup {run[r].pend} ELSE mails
  /\ run' = [run EXCEPT ![r] =
       IF ok THEN Continue(impl, mailCfg, gLast, Mailed(impl, run[r]))
       ELSE Fail(impl, run[r], run[r].idx, "mail")]
  /\ UNCHANGED <<aside, impl, mailCfg, credits, inbox, plan, gLast, dir, resp>>

\* page / context / browser close returns: after the loop, or in the catch
\* block of part_010, which ignores a failure of the close.
CloseReturn(r, ok) ==
  /\ run[r].pc = "close" \/ run[r].browser = "closing"
  /\ run' = [run EXCEPT ![r] =
       IF run[r].browser = "closing"
       THEN [run[r] EXCEPT !.browser = IF ok THEN "closed" ELSE "open"]
       ELSE IF ok THEN Done(impl, [run[r] EXCEPT !.browser = "closed"])
       ELSE Fail(impl, run[r], 0, "driver")]
  /\ UNCHANGED <<aside, impl, mailCfg, credits, inbox, plan, gLast, dir, mails, resp>>

\* A record that is stored only when the background task starts.
LookupLate(id) ==
  IF run[id].status = "none" \/ run[id].pc = "accepted"
  THEN [op |-> "get", id |-> id, code |-> 404, status |-> "none"]
  ELSE [op |-> "get", id |-> id, code |-> 200, status |-> run[id].status]

Lookup(id) ==
  IF run[id].status = "none"
  THEN [op |-> "get", id |-> id, code |-> 404, status |-> "none"]
  ELSE [op |-> "get", id |-> id, code |-> 200, status |-> run[id].status]

\* GET /api/run/:id
Poll(id) ==
  /\ Async(impl)
  /\ resp' = Lookup(id)
  /\ resp' # resp
  /\ UNCHANGED <<aside, impl, mailCfg, credits, inbox, plan, run, gLast, dir, mails>>

\* A planner that charges the user as a run does.
PlanRequestCharged(t, o) ==
  /\ plan' = [text |-> t,
              oracle |-> IF UsesOracle(impl, mailCfg, t) THEN o ELSE "unused",
              out |-> Planner(impl, mailCfg, t, o)]
  /\ credits' = IF credits >= StartCost THEN credits - StartCost ELSE credits
  /\ UNCHANGED <<aside, impl, mailCfg, inbox, run, gLast, dir, mails, resp>>

\* POST /plan (POST /api/plan): the answer is computed from the prompt, the
\* environment and, where it is consulted, the oracle.
PlanRequest(t, o) ==
  /\ plan' = [text |-> t,
              oracle |-> IF UsesOracle(impl, mailCfg, t) THEN o ELSE "unused",
              out |-> Planner(impl, mailCfg, t, o)]
  /\ UNCHANGED <<aside, impl, mailCfg, credits, inbox, run, gLast, dir, mails, resp>>

\* The client posts the steps of the planner's last answer to the executor.
SubmitPlanned ==
  /\ plan.out.status = "ok"
  /\ IF Async(impl) THEN Accept(1, AsSteps(plan.out)) ELSE Submit(1, AsSteps(plan.out))

\* An add_monitor step: the job is appended to the store and nothing of it
\* runs.  Adding to the store while a sweep rewrites it is outside what the
\* store guarantees and is left out.
AddMonitor(u) ==
  /\ sweep.pc = "idle"
  /\ Len(jobs) < MaxJobs
  /\ jobs' = Append(jobs, Monitor(u))
  /\ UNCHANGED <<exec, web, sweep, notes, call>>

\* The content of a watched page changes.
Change(u, c) ==
  /\ c # web[u]
  /\ web' = [web EXCEPT ![u] = c]
  /\ UNCHANGED <<exec, jobs, sweep, notes, call>>

\* The scheduler trigger of the monitors: the store is loaded and the first
\* job's page is fetched.
SweepStart ==
  /\ sweep.pc = "idle"
  /\ sweep.no < MaxSweeps
  /\ sweep' = SweepOn([NoSweep EXCEPT !.no = sweep.no + 1], Len(jobs))
  /\ UNCHANGED <<exec, jobs, web, notes, call>>

\* The fetch of the current monitor's page returns: the fingerprint is
\* compared with the stored one; without a change it is stored at once, with
\* a change the screenshot and the notification come first.
SweepFetchReturn(ok) ==
  /\ sweep.pc = "fetch"
  /\ LET j == sweep.i
         h == Fingerprint(web[jobs[j].url])
         S == [sweep EXCEPT !.tried = @ \cup {j}]
     IN  IF ~ok THEN
              /\ sweep' = JobFailed(S, Len(jobs))
              /\ jobs' = jobs
         ELSE IF ChangedFrom(jobs[j].fp, h) THEN
              /\ sweep' = [S EXCEPT !.pc = "notify", !.got = h]
              /\ jobs' = jobs
         ELSE /\ sweep' = JobDone(S, Len(jobs))
              /\ jobs' = [jobs EXCEPT ![j].fp = h]
  /\ UNCHANGED <<exec, web, notes, call>>

\* The screenshot and the "content changed" mail of the current monitor
\* return; the fingerprint is stored whatever became of them.
SweepNotifyReturn(ok) ==
  /\ sweep.pc = "notify"
  /\ LET j == sweep.i
     IN  /\ notes' = IF ok THEN Append(notes, Note(j, sweep.no, sweep.got)) ELSE notes
         /\ jobs' = [jobs EXCEPT ![j].fp = sweep.got]
         /\ sweep' = IF ok THEN JobDone([sweep EXCEPT !.changed = @ + 1], Len(jobs))
                     ELSE JobFailed(sweep, Len(jobs))
  /\ UNCHANGED <<exec, web, call>>

\* The generate_image helpers: generateImageOpenAI of part_001:158 and
\* part_006:135, generateImage of part_012:113, createImageWithOpenAI of
\* part_013:116.
ImageGens == {"p001", "p006", "p012", "p013"}

\* The provider's answer: the HTTP status is ok or not, data[0] is there or
\* not, and it has b64_json, url, both or neither.
Responses ==
  {a \in [ok : BOOLEAN, data : BOOLEAN, b64 : BOOLEAN, url : BOOLEAN] :
     ~a.data => (~a.b64 /\ ~a.url)}

\* The body of the request has a response_format member.
RequestsFormat(g) == g = "p013"

ImageFault(sent, g, cause) ==
  [sent |-> sent, format |-> sent /\ RequestsFormat(g), result |-> "fault", cause |-> cause]

ImageSaved(g, from) ==
  [sent |-> TRUE, format |-> RequestsFormat(g), result |-> "artifact", cause |-> from]

\* The helper with OPENAI_API_KEY set or not, the provider's answer a, and
\* the download of a hosted image succeeding or not.
GenerateImage(g, key, a, dl) ==
  CASE ~key -> ImageFault(FALSE, g, "nokey")
    [] key /\ ~a.ok -> ImageFault(TRUE, g, "provider")
    [] key /\ a.ok /\ g = "p013" ->
         IF a.b64 THEN ImageSaved(g, "b64") ELSE ImageFault(TRUE, g, "noimage")
    [] OTHER ->
         IF ~a.data THEN ImageFault(TRUE, g, "noimage")
         ELSE IF a.b64 THEN ImageSaved(g, "b64")
         ELSE IF a.url THEN (IF dl THEN ImageSaved(g, "url") ELSE ImageFault(TRUE, g, "download"))
         ELSE ImageFault(TRUE, g, "unusable")

\* A generate_image step calls its helper.
ImageCall(g, key, a, dl) ==
  /\ call = NoCall
  /\ call' = [fn |-> "generate_image", gen |-> g, key |-> key, resp |-> a, dl |-> dl,
              out |-> GenerateImage(g, key, a, dl)]
  /\ UNCHANGED <<exec, jobs, web, sweep, notes>>

\* An extract_links step calls its helper on the page it has loaded.
ExtractCall(g, page, c) ==
  /\ call = NoCall
  /\ call' = [fn |-> "extract_links", gen |-> g, page |-> page, count |-> c,
              out |-> ExtractLinks(g, page, c)]
  /\ UNCHANGED <<exec, jobs, web, sweep, notes>>

(* --------------------------- specifications --------------------------- *)

SubmitOne == \E p \in Plans(impl) : Submit(1, p)

AcceptOne == \E p \in Plans(impl) : Accept(1, p)

SubmitConc == \E r \in RunIds, p \in ConcPlans(impl) : Submit(r, p)

AcceptConc == \E r \in RunIds, p \in ConcPlans(impl) : Accept(r, p)

StartAny == \E r \in RunIds : Start(r)

LaunchAny == \E r \in RunIds, ok \in BOOLEAN : LaunchReturn(r, ok)

CaptureAny == \E r \in RunIds, ok \in BOOLEAN : CaptureReturn(r, ok)

NavAny == \E r \in RunIds, ok \in BOOLEAN : NavReturn(r, ok)

ExtractAny == \E r \in RunIds, out \in {"some", "empty", "fail"} : ExtractReturn(r, out)

FsAny == \E r \in RunIds : FsReturn(r)

MailAny == \E r \in RunIds, ok \in BOOLEAN : MailReturn(r, ok)

ImapAny == \E r \in RunIds, ok \in BOOLEAN : ImapReturn(r, ok)

FetchAny == \E r \in RunIds, ok \in BOOLEAN : FetchReturn(r, ok)

LogoutAny == \E r \in RunIds, ok \in BOOLEAN : LogoutReturn(r, ok)

CloseAny == \E r \in RunIds, ok \in BOOLEAN : CloseReturn(r, ok)

PollAny == \E id \in RunIds : Poll(id)

Returns ==
  \/ StartAny
  \/ LaunchAny
  \/ CaptureAny
  \/ NavAny
  \/ ExtractAny
  \/ FsAny
  \/ ImapAny
  \/ FetchAny
  \/ LogoutAny
  \/ MailAny
  \/ CloseAny

Next == SubmitOne \/ AcceptOne \/ Reject \/ Returns \/ PollAny

\* One run: the user has no credits or the default, the mailbox is empty or
\* holds one long message.
InitOne == Init /\ credits \in {0, FreeCredits} /\ inbox \in {<<>>, <<"long">>}

Spec == InitOne /\ [][Next]_vars

\* Plans of capture and notify steps only: no goto and no extract_links.
ReturnsConc ==
  \/ StartAny
  \/ LaunchAny
  \/ CaptureAny
  \/ FsAny
  \/ MailAny
  \/ CloseAny

NextConc == SubmitConc \/ AcceptConc \/ Reject \/ ReturnsConc \/ PollAny

\* The concurrency claims are about the mail that is sent: the transport is
\* configured.
InitConc == Init /\ mailCfg = TRUE /\ inbox = <<>>

SpecConc == InitConc /\ [][NextConc]_vars

FwdSteps == {Step("forward", TRUE), Step("nav", TRUE)}

FwdPlans == SeqsUpTo(FwdSteps, MaxFwdSteps)

AcceptFwd == \E p \in FwdPlans : Accept(1, p)

ArriveAny == \E size \in Sizes : Arrive(size)

ReturnsFwd ==
  \/ StartAny
  \/ LaunchAny
  \/ NavAny
  \/ ImapAny
  \/ FetchAny
  \/ LogoutAny
  \/ MailAny
  \/ CloseAny

NextFwd == AcceptFwd \/ ReturnsFwd \/ ArriveAny

\* The forwarding generation, with credits for every run, while messages
\* keep arriving in the mailbox.
InitFwd == Init /\ impl = "p007" /\ credits = FreeCredits

SpecFwd == InitFwd /\ [][NextFwd]_vars

\* The prompts differ in what the generation's planner looks for: only
\* part_007 reads `forward' and cuts the text, and it does not read `links'.
TextsOf(im) ==
  IF im = "p007" THEN {t \in Texts : ~t.links}
  ELSE {t \in Texts : ~t.fwd /\ ~t.cut}

\* The first prompt is any prompt; after it the client asks again for the
\* same prompt or for the prompt in which the planners find nothing.
Plannable(t) == plan = NoPlan \/ t \in {plan.text, NoText}

PlanAny ==
  \E t \in TextsOf(impl) :
    /\ Plannable(t)
    /\ \E o \in (IF UsesOracle(impl, mailCfg, t) THEN Oracle ELSE {"unused"}) :
         PlanRequest(t, o)

NextPlan == PlanAny \/ SubmitPlanned \/ Returns

\* A server whose planner is modelled, with credits for a run and one
\* message in the mailbox.
InitPlan ==
  /\ Init
  /\ impl \in PlanImpls
  /\ HasCredits(impl) => credits = FreeCredits
  /\ HasHandler(impl, "forward") => inbox = <<"short">>

SpecPlan == InitPlan /\ [][NextPlan]_vars

\* Every awaited external call returns (or fails) at some time.
\* Polling does not move a run: it is left out.
NextLive == SubmitOne \/ AcceptOne \/ Reject \/ Returns

SpecLive == InitOne /\ [][NextLive]_vars /\ WF_vars(Returns)

AddMonitorAny == \E u \in Urls : AddMonitor(u)

ChangeAny == \E u \in Urls, c \in Contents : Change(u, c)

SweepFetchAny == \E ok \in BOOLEAN : SweepFetchReturn(ok)

SweepNotifyAny == \E ok \in BOOLEAN : SweepNotifyReturn(ok)

NextSweep == AddMonitorAny \/ ChangeAny \/ SweepStart \/ SweepFetchAny \/ SweepNotifyAny

\* The job store and the scheduler trigger; no run is submitted.
InitSweep == Init /\ impl = "p007" /\ mailCfg = TRUE /\ credits = FreeCredits /\ inbox = <<>>

SpecSweep == InitSweep /\ [][NextSweep]_vars

ExtractCallAny ==
  \E g \in LinkGens, page \in Pages : \E c \in CountsOf(g) : ExtractCall(g, page, c)

ImageCallAny ==
  \E g \in ImageGens, key \in BOOLEAN, a \in Responses, dl \in BOOLEAN :
    ImageCall(g, key, a, dl)

NextHelpers == call = NoCall /\ (ExtractCallAny \/ ImageCallAny)

InitHelpers == Init /\ impl = "srv" /\ mailCfg = TRUE

\* One call of the extract_links or generate_image helper of any generation.
SpecHelpers == InitHelpers /\ [][NextHelpers]_vars

(* ------------------------------- claims ------------------------------- *)

Terminal(r) == run[r].status \in {"done", "error"}

StartedSet(r) == {run[r].started[n] : n \in 1..Len(run[r].started)}

KindAt(r, j) == run[r].plan[j].kind

\* No step before step i of run r is a handled step of the given kind.
NoneBefore(r, i, kind) ==
  \A j \in 1..(i - 1) : ~(KindAt(r, j) = kind /\ HasHandler(impl, kind))

\* C1: when step K of a run raises a step fault, no step after K is started,
\* no mail of the run is sent or in flight after the fault, and the run ends
\* in status error.
C1_FaultStops ==
  \A r \in RunIds :
    run[r].fault.step > 0 =>
      /\ run[r].status = "error"
      /\ run[r].pc = "end"
      /\ run[r].pend = NoMail
      /\ \A j \in StartedSet(r) : j <= run[r].fault.step
      /\ \A m \in mails : m.run = r => m.step < run[r].fault.step

\* A capture step faulted and a notify step follows it in the plan.
C1_Witness ==
  \E r \in RunIds :
    /\ run[r].fault.step = 1
    /\ Len(run[r].plan) >= 2
    /\ KindAt(r, 1) = "capture"
    /\ KindAt(r, 2) = "send_last"
    /\ HasHandler(impl, "send_last")

\* C2 (as claimed): a run whose plan holds only steps of unknown kind, and
\* whose external calls did not fail, ends in status done.
C2_UnknownOnlyDone ==
  \A r \in RunIds :
    ( /\ Terminal(r)
      /\ Len(run[r].plan) >= 1
      /\ \A j \in 1..Len(run[r].plan) : ~HasHandler(impl, KindAt(r, j))
      /\ run[r].fault.cause # "driver" )
    => run[r].status = "done"

\* C3 (as claimed): in a run that went through its whole plan, every step of
\* unknown kind has left a log or result line that names it, and every step
\* of a known kind was started.
C3_UnknownLogged ==
  \A r \in RunIds :
    run[r].status = "done" =>
      \A j \in 1..Len(run[r].plan) :
        IF HasHandler(impl, KindAt(r, j))
        THEN j \in StartedSet(r)
        ELSE \E n \in 1..Len(run[r].log) :
               run[r].log[n].tag = "unknown" /\ run[r].log[n].s = j

FrozenStep(r) ==
  /\ run[r].status = "running" => run'[r].status \in {"running", "done", "error"}
  /\ (run[r].status = "none" /\ Async(impl)) => run'[r].status \in {"none", "running"}
  /\ Terminal(r) =>
       /\ run'[r].status = run[r].status
       /\ run'[r].log = run[r].log
       /\ run'[r].arts = run[r].arts

\* C4: a run's status starts as running and changes at most once, to done or
\* to error; once it is terminal, the status, the log and the artifact list
\* of the run never change, whatever is polled or submitted afterwards.
C4_TerminalFrozen == [][\A r \in RunIds : FrozenStep(r)]_vars

\* A finished run has been polled while a run submitted after it is running.
C4_Witness ==
  \E r, q \in RunIds :
    /\ r < q
    /\ Terminal(r)
    /\ run[r].log # <<>>
    /\ run[q].status = "running"
    /\ run[q].idx >= 1
    /\ resp.op = "get" /\ resp.id = r /\ resp.status = run[r].status

\* C5 (as claimed): the artifact a notify-with-artifact step sends was
\* produced by a capture step of the same run.
C5_OwnArtifact ==
  \A m \in mails :
    (m.kind = "send_last" /\ m.att # NoArt) => m.att[1] = m.run

\* C6: the steps of a run start in plan order and one at a time: a handler
\* starts only when every handler started before it has returned.
C6_Sequential ==
  \A r \in RunIds :
    /\ Len(run[r].started) \in {run[r].returned, run[r].returned + 1}
    /\ \A a, b \in 1..Len(run[r].started) :
         a < b => run[r].started[a] < run[r].started[b]
    /\ Awaiting(run[r]) =>
         /\ Len(run[r].started) = run[r].returned + 1
         /\ run[r].started[Len(run[r].started)] = run[r].idx
    /\ run[r].status = "done" => Len(run[r].started) = run[r].returned

\* A second handler is in flight after the first has returned.
C6_Witness ==
  \E r \in RunIds :
    /\ Awaiting(run[r])
    /\ run[r].returned >= 1
    /\ Len(run[r].started) >= 2

\* C7: every accepted run reaches status done or error, given that every
\* awaited external call returns or fails.
C7_Terminates ==
  \A r \in RunIds : (run[r].status = "running") ~> Terminal(r)

\* A run that awaited external calls for two steps has ended.
C7_Witness ==
  \E r \in RunIds : Terminal(r) /\ run[r].returned >= 2

C8_State ==
  /\ \A r \in RunIds :
       run[r].pc = "accepted" =>
         run[r].status = "running" /\ run[r].started = <<>> /\ run[r].log = <<>>
  /\ (resp.op = "post" /\ resp.code = 200) =>
       (resp.status = "running" /\ run[resp.id].status # "none")
  /\ resp.op = "get" => (resp.code = 404 <=> run[resp.id].status = "none")

C8_Step ==
  /\ \A r \in RunIds :
       (Async(impl) /\ run[r].status = "none" /\ run'[r].status # "none") =>
         /\ run'[r].pc = "accepted"
         /\ resp' = [op |-> "post", id |-> r, code |-> 200, status |-> "running"]
  /\ (resp' # resp /\ resp'.op = "get" /\ resp'.code = 200) =>
       resp'.status = run[resp'.id].status

\* C8: POST /api/run stores the record with status running and answers its
\* id before any step runs; from then on GET /api/run/{id} answers that
\* record, and an id that was never answered gets Not found.
C8_StoredFirst == []C8_State /\ [][C8_Step]_vars

\* A record polled after its id was answered and before its task started.
C8_Witness ==
  /\ resp.op = "get"
  /\ resp.code = 200
  /\ run[resp.id].pc = "accepted"
  /\ Len(run[resp.id].plan) >= 1

\* C9 (as claimed): a notify-with-artifact step that is reached when no
\* capture step of the run came before it faults: no mail, status error.
C9_NothingToSendFaults ==
  \A r \in RunIds : \A i \in StartedSet(r) :
    (KindAt(r, i) = "send_last" /\ NoneBefore(r, i, "capture")) =>
      \/ run[r].pc = "fs" /\ run[r].idx = i
      \/ run[r].status = "error" /\ run[r].fault.step = i

SendKinds == {"send_last", "send_text", "forward"}

\* Step i of run r asked the mail transport to send: it is a notify or forward
\* step that was started and was not passed over for want of an artifact.
NeedsTransport(r, i) ==
  /\ i \in StartedSet(r)
  /\ KindAt(r, i) \in SendKinds
  /\ ~\E n \in 1..Len(run[r].log) : run[r].log[n].tag = "skip" /\ run[r].log[n].s = i

\* C11 (as claimed): when the mail transport has no credentials, a step that
\* needs it raises a step fault and the run ends in error at that step; the
\* run never goes on to done after passing the send over.
C11_NoConfigFaults ==
  \A r \in RunIds : \A i \in 1..Len(run[r].plan) :
    (~mailCfg /\ NeedsTransport(r, i)) =>
      \/ run[r].pc = "fs" /\ run[r].idx = i
      \/ run[r].status = "error" /\ run[r].fault.step = i

Planned == plan.out.status # "none"

Range(q) == {q[j] : j \in 1..Len(q)}

Recipients(out) == {out.steps[j].to : j \in 1..Len(out.steps)} \ {"null"}

\* C12 (as claimed): for a prompt with the service's own address and one
\* other address, in either order, every recipient in the plan is the other
\* address and the plan has one; the own address is never a recipient.
C12_OtherAddress ==
  ( /\ Planned
    /\ mailCfg
    /\ plan.out.status = "ok"
    /\ plan.oracle = "unused"
    /\ ~plan.text.cut
    /\ plan.text.addrs \in {<<"own", "a">>, <<"a", "own">>}
    /\ plan.out.steps # <<>> )
  => Recipients(plan.out) = {"a"}

\* The planners find no keyword and no URL in the prompt.
MatchesNone(t) == ~t.shot /\ ~t.fwd /\ ~t.mailw /\ ~t.links /\ ~t.url

\* C13 (as claimed): for a prompt that matches no heuristic, with the oracle
\* not consulted or failing, planning answers, and answers no step.
C13_EmptyOnMiss ==
  (Planned /\ MatchesNone(plan.text) /\ plan.oracle \in {"unused", "fail"}) =>
    plan.out.status # "rejected" /\ plan.out.steps = <<>>

\* C14 (as claimed): an oracle answer that is not JSON, or that has a step of
\* no known kind, gives the empty plan, and no step of unknown kind of an
\* oracle plan is in a run.
C14_OracleValidated ==
  /\ plan.oracle \in {"garbage", "badkind"} => plan.out = PlanOk(<<>>)
  /\ impl = "p007" => \A j \in 1..Len(run[1].plan) : run[1].plan[j].kind # "bogus"

\* C15 (as claimed): an oracle answer that is one bare step is answered as a
\* step list of that one step.
C15_Promoted ==
  plan.oracle = "single" =>
    /\ plan.out.form = "seq"
    /\ Len(plan.out.steps) = 1
    /\ plan.out.steps[1].kind = "forward"

\* C16 (as claimed): for a prompt with the word screenshot and a URL (and no
\* forward request) the plan is the capture step, followed by one
\* notify-with-artifact step to an address of the prompt exactly when the
\* prompt has an address.
C16_ScreenshotPlan ==
  ( /\ Planned
    /\ plan.oracle = "unused"
    /\ plan.text.shot /\ plan.text.url /\ ~plan.text.fwd )
  => /\ plan.out.status = "ok"
     /\ plan.out.steps # <<>>
     /\ plan.out.steps[1].kind = "capture"
     /\ IF plan.text.addrs = <<>> THEN Len(plan.out.steps) = 1
        ELSE /\ Len(plan.out.steps) = 2
             /\ plan.out.steps[2].kind = "send_last"
             /\ plan.out.steps[2].to \in Range(plan.text.addrs)

\* The plan is the single step forward-latest-message to one of the given
\* addresses, and the oracle was not consulted.
ForwardOnly(others) ==
  /\ plan.oracle = "unused"
  /\ plan.out.status = "ok"
  /\ plan.out.form = "seq"
  /\ Len(plan.out.steps) = 1
  /\ plan.out.steps[1].kind = "forward"
  /\ plan.out.steps[1].to \in others

\* C17 (as claimed): a prompt with forward, gmail or email, and an address
\* other than the service's own gets the single forward step to such an
\* address, whatever else it holds.
C17_ForwardWins ==
  LET others == Range(plan.text.addrs) \ {GmailUser(mailCfg)}
  IN  ( /\ Planned
        /\ HasHandler(impl, "forward")
        /\ plan.text.fwd /\ plan.text.mailw
        /\ others # {} )
      => ForwardOnly(others)

\* C17 (amended): the same for the first 800 characters of the prompt: an
\* address beyond them is not seen.
C17_ForwardWinsInHead ==
  LET others == Range(Slice800(plan.text)) \ {GmailUser(mailCfg)}
  IN  ( /\ Planned
        /\ HasHandler(impl, "forward")
        /\ plan.text.fwd /\ plan.text.mailw
        /\ others # {} )
      => ForwardOnly(others)

\* A prompt with screenshot, a URL, the own address and then another one was
\* planned as the forward to the other address.
C17_Witness ==
  /\ impl = "p007"
  /\ mailCfg
  /\ plan.text.fwd /\ plan.text.mailw /\ plan.text.shot /\ plan.text.url
  /\ plan.text.addrs = <<"own", "a">>
  /\ plan.out = PlanOk(<<PStep("forward", "a")>>)

\* C18: a planner request changes nothing but its own answer: the run store,
\* the credit balance, the last artifact, the artifact directory, the sent
\* mail and the mailbox stay as they are; and the answer for a heuristic
\* match is the one the prompt and the configuration determine.
C18_PlanningPure ==
  [][(plan' # plan) =>
       /\ UNCHANGED <<run, credits, gLast, dir, mails, inbox, resp>>
       /\ plan'.oracle = "unused" =>
            plan'.out = Planner(impl, mailCfg, plan'.text, "fail")]_vars

\* A prompt was planned after a run that left an artifact had ended.
C18_Witness ==
  /\ Planned
  /\ plan.text = NoText
  /\ run[1].status = "done"
  /\ run[1].plan # <<>>
  /\ dir # <<>>

ForwardMails == {m \in mails : m.kind = "forward"}

\* C19 (as claimed): every forwarded mail carries the whole content of the
\* message it forwards.
C19_WholeContent ==
  \A m \in ForwardMails : m.msg >= 1 /\ m.body = "raw"

C19_State ==
  /\ \A m \in ForwardMails :
       /\ m.msg \in 1..Len(inbox)
       /\ m.body = Slice(inbox[m.msg])
       /\ KindAt(m.run, m.step) = "forward"
  /\ \A m, n \in ForwardMails : (m.run = n.run /\ m.step = n.step) => m = n
  /\ \A r \in RunIds :
       /\ (run[r].pc = "mail" /\ run[r].pend.kind = "forward") =>
            run[r].pend.msg = run[r].seq /\ run[r].seq >= 1
       /\ run[r].fault.cause = "empty" =>
            /\ run[r].status = "error"
            /\ \A m \in ForwardMails : ~(m.run = r /\ m.step = run[r].fault.step)

C19_Step ==
  \A r \in RunIds :
    /\ (run[r].pc = "imap" /\ run'[r].pc = "fetch") =>
         Len(inbox) >= 1 /\ run'[r].seq = Len(inbox)
    /\ (run[r].pc = "imap" /\ Len(inbox) = 0 /\ run'[r] # run[r]) =>
         /\ run'[r].pend = NoMail
         /\ run'[r].pc \in {"logout", "end"}
         /\ run'[r].pc = "logout" => run'[r].seq = 0
    /\ (run[r].pc = "logout" /\ run[r].seq = 0 /\ run'[r] # run[r]) =>
         run'[r].status = "error" /\ run'[r].fault.step = run[r].idx

\* C19 (amended): forward_latest_message fetches the message whose number is
\* the message count that selecting the mailbox reported and sends one mail
\* per step with that message's source cut to its first 100000 characters;
\* when the mailbox is empty the step faults and no mail is sent for it.
C19_ForwardsLatest == []C19_State /\ [][C19_Step]_vars

\* The second of two messages, a long one that arrived while the server was
\* up, was forwarded cut.
C19_Witness ==
  \E m \in ForwardMails : m.msg = 2 /\ m.body = "cut" /\ run[m.run].status = "done"

\* C20 (as claimed): the answer of a synchronous run that failed is
\* {ok: false, error} and error is the message of the fault that ended it.
C20_UnderlyingMessage ==
  \A r \in RunIds :
    (~Async(impl) /\ run[r].status = "error") =>
      /\ run[r].reply.shape = "json"
      /\ ~run[r].reply.ok
      /\ run[r].reply.error = run[r].fault.cause

JobsAt == 1..Len(jobs)

\* The fetch of job j returned content in this step.
Fetched(j) ==
  /\ sweep.pc = "fetch"
  /\ sweep.i = j
  /\ sweep' # sweep
  /\ j \notin sweep'.failed

C21_Step ==
  \A j \in JobsAt :
    LET h == Fingerprint(web[jobs[j].url])
    IN  /\ (Fetched(j) /\ jobs[j].fp = NoFingerprint) =>
             /\ jobs'[j].fp = h
             /\ h # NoFingerprint
             /\ sweep'.pc # "notify"
        /\ (Fetched(j) /\ jobs[j].fp = h) =>
             /\ jobs' = jobs
             /\ sweep'.pc # "notify"
        /\ (Fetched(j) /\ jobs[j].fp \notin {NoFingerprint, h}) =>
             /\ sweep'.pc = "notify"
             /\ sweep'.i = j
             /\ sweep'.got = h
        /\ (sweep.pc = "notify" /\ sweep.i = j /\ sweep' # sweep) =>
             /\ jobs'[j].fp = sweep.got
             /\ IF j \in sweep'.failed THEN notes' = notes
                ELSE notes' = Append(notes, Note(j, sweep.no, sweep.got))
        /\ sweep.pc # "notify" => notes' = notes

C21_State ==
  \A a, b \in 1..Len(notes) :
    (notes[a].job = notes[b].job /\ notes[a].no = notes[b].no) => a = b

\* C21: a sweep that fetches the page of a Monitor without fingerprint stores
\* the fingerprint of the content and sends no notification; a sweep that
\* fetches content whose fingerprint differs from the stored one sends one
\* notification for that Monitor (when the screenshot and the mail succeed)
\* and stores the new fingerprint; a sweep that fetches unchanged content
\* sends none.
C21_MonitorSweep == []C21_State /\ [][C21_Step]_vars

\* After a first sweep that set the baselines, a second sweep notified for the
\* monitor whose page had changed and not for the one whose page had not.
C21_Witness ==
  /\ Len(jobs) = 2
  /\ sweep.pc = "idle"
  /\ sweep.no = 2
  /\ sweep.failed = {}
  /\ sweep.tried = {1, 2}
  /\ notes = <<Note(1, 2, Fingerprint(2))>>
  /\ jobs[1].fp = Fingerprint(2)
  /\ jobs[2].fp = Fingerprint(1)
  /\ jobs[1].url # jobs[2].url

C22_Step ==
  \A j \in JobsAt :
    (sweep.pc = "fetch" /\ sweep.i = j /\ j \in sweep'.failed /\ j < Len(jobs)) =>
      /\ sweep'.pc = "fetch"
      /\ sweep'.i = j + 1
      /\ jobs' = jobs

C22_Ends == (sweep.pc # "idle" /\ sweep'.pc = "idle") => sweep'.tried = 1..Len(jobs')

C22_State == sweep.pc # "idle" => sweep.tried \cup {sweep.i} = 1..sweep.i

\* C22: when the fetch of one job fails the sweep goes on with the next job,
\* and at the end of every sweep the fetch of every job of the store has
\* been attempted.
C22_SweepIsolates == []C22_State /\ [][C22_Step /\ C22_Ends]_vars

\* A sweep whose first job failed has set the baseline of its second job.
C22_Witness ==
  /\ Len(jobs) = 2
  /\ sweep.pc = "idle"
  /\ sweep.no = 1
  /\ sweep.failed = {1}
  /\ sweep.tried = {1, 2}
  /\ jobs[1].fp = NoFingerprint
  /\ jobs[2].fp # NoFingerprint

\* The steps before step i of run r that are handled steps of the given kind.
Producers(r, i, kind) ==
  {j \in 1..(i - 1) : KindAt(r, j) = kind /\ HasHandler(impl, kind)}

Latest(S) == CHOOSE j \in S : \A k \in S : k <= j

\* What extract step j of run r has put into the results.
LinksOf(r, j) ==
  {run[r].log[n].links : n \in {n \in 1..Len(run[r].log) :
                                  run[r].log[n].tag = "extract" /\ run[r].log[n].s = j}}

\* C23 (as claimed): a notify-with-artifact mail attaches the artifact of the
\* latest capture step that came before it in its run, whatever ran in
\* between, and a notify-with-text mail carries the links of the latest
\* extract step before it, not those of an earlier one.
C23_LatestOutput ==
  \A m \in mails :
    LET caps == Producers(m.run, m.step, "capture")
        exts == Producers(m.run, m.step, "extract")
    IN  /\ (m.kind = "send_last" /\ caps # {}) =>
             m.att = ArtName(impl, m.run, Latest(caps))
        /\ (m.kind = "send_text" /\ exts # {}
              /\ LinksOf(m.run, Latest(exts)) = {"some"}) =>
             m.body = "text"

\* Run r faulted at step k, a step that lacks its url.
MalformedAt(r, k) ==
  /\ k \in 1..Len(run[r].plan)
  /\ run[r].fault.step = k
  /\ ~run[r].plan[k].ok

\* The steps before step k completed, and the artifacts of the capture steps
\* among them are in the artifact directory.
EarlierKept(r, k) ==
  LET caps == Producers(r, k, "capture")
  IN  /\ StartedSet(r) = {j \in 1..k : HasHandler(impl, KindAt(r, j))}
      /\ run[r].returned = Len(run[r].started) - 1
      /\ \A j \in caps : ArtName(impl, r, j) \in Range(dir)
      /\ Len(run[r].arts) = Cardinality(caps)
      /\ Range(run[r].arts) = {ArtName(impl, r, j) : j \in caps}

\* The results (the log lines that are not the fault's) name the steps
\* before step k, one line each and in order.
ReportsEarlier(r, k) ==
  LET lines == SelectSeq(run[r].log, LAMBDA e : e.tag # "ERROR")
  IN  Len(lines) = k - 1 /\ \A n \in 1..(k - 1) : lines[n].s = n

AnswersResults == impl \in {"p001", "p009a"}

HasError(R) == \E n \in 1..Len(R.log) : R.log[n].tag = "ERROR"

\* C25: the record of a run that ended in error has the message of the
\* fault that ended it as the last line of its log, and the record of a run
\* that is running or done has no ERROR line.
C25_ErrorLast ==
  \A r \in RunIds :
    Async(impl) =>
      /\ run[r].status = "error" =>
           /\ LastEntry(run[r]).tag = "ERROR"
           /\ LastEntry(run[r]).links = run[r].fault.cause
           /\ LastEntry(run[r]).s = run[r].fault.step
           /\ run[r].fault.cause # "none"
           /\ \A n \in 1..(Len(run[r].log) - 1) : run[r].log[n].tag # "ERROR"
      /\ run[r].status \in {"running", "done"} => ~HasError(run[r])

\* A run whose second step faulted after its first step had logged its line.
C25_Witness ==
  \E r \in RunIds :
    /\ Async(impl)
    /\ run[r].status = "error"
    /\ run[r].fault.step = 2
    /\ Len(run[r].log) >= 3
    /\ LastEntry(run[r]).tag = "ERROR"

BrowserPcs == {"launch", "browser", "close"}

\* The plan of run r is the single step forward_latest_message.
SingleForward(r) == Len(run[r].plan) = 1 /\ KindAt(r, 1) = "forward"

MailsOf(r, i) == {m \in mails : m.run = r /\ m.step = i}

\* Step i of run r, a forward step that is over, has either faulted and sent
\* nothing or sent the one mail that forwards the message it fetched.
ForwardResult(r, i) ==
  IF run[r].fault.step = i
  THEN /\ MailsOf(r, i) = {}
       /\ run[r].status = "error"
       /\ run[r].fault.cause \in {"config", "driver", "empty", "mail"}
  ELSE \E seq \in 1..Len(inbox) : MailsOf(r, i) = {Fwd(r, i, seq, inbox[seq])}

StepOver(r, i) == run[r].idx > i \/ (run[r].idx = i /\ run[r].pc \in {"end", "close"})

\* C26: a run whose plan is the single step forward_latest_message never
\* waits for the browser driver, and its forward step has the result that a
\* forward step of the general step loop has: one mail with the fetched
\* message and then status done, or a fault of that step, no mail and status
\* error.
C26_SpecialPath ==
  \A r \in RunIds :
    /\ \A i \in 1..run[r].idx :
         (KindAt(r, i) = "forward" /\ StepOver(r, i)) => ForwardResult(r, i)
    /\ SingleForward(r) =>
         /\ run[r].pc \notin BrowserPcs
         /\ run[r].status = "done" <=> (StepOver(r, 1) /\ run[r].fault.step = 0)
         /\ run[r].status = "error" => run[r].fault.step = 1
         /\ run[r].status = "done" => run[r].returned = 1

\* The single forward step has sent its mail and the run is done.
C26_Witness ==
  \E r \in RunIds :
    /\ SingleForward(r)
    /\ run[r].status = "done"
    /\ MailsOf(r, 1) # {}

\* clamp(c, 1, 20)
Clamp(c) == Max2(1, Min2(20, c))

LinksCalled == call.fn = "extract_links"

\* C27 (as claimed): for every requested count, extract_links returns at
\* most clamp(count, 1, 20) entries.
C27_ClampedCount ==
  LinksCalled => Len(call.out) <= Clamp(call.count)

\* The hrefs of a list of anchors after stripping fragment and query.
DistinctDocs(q) == {Normalize(q[n].href) : n \in 1..Len(q)}

\* C28 (as claimed): no two entries of the result have hrefs that are equal
\* after stripping fragment and query, and when the page has at least count
\* anchors that pass the filter and are distinct after that normalization
\* the result has exactly count entries.
C28_Deduped ==
  LinksCalled =>
    /\ \A a, b \in 1..Len(call.out) :
         a # b => Normalize(call.out[a].href) # Normalize(call.out[b].href)
    /\ ( /\ call.count \in 1..20
         /\ Cardinality(DistinctDocs(Filtered(call.gen, call.page))) >= call.count ) =>
         Len(call.out) = call.count

\* C29 (as claimed): the result is never empty, and when no anchor passes the
\* filter it is the one entry whose href is the input URL.
C29_NeverEmpty ==
  LinksCalled =>
    /\ call.out # <<>>
    /\ Filtered(call.gen, call.page) = <<>> => call.out = <<UrlEntry>>

ImageCalled == call.fn = "generate_image"

\* C30 (as claimed): the request of generate_image has no response-format
\* parameter; when the provider answers with an inline image or with the URL
\* of a hosted one (and that URL can be fetched) the helper saves an
\* artifact, and when it answers with neither the helper faults.
C30_ImageContract ==
  ImageCalled =>
    /\ ~call.out.format
    /\ (call.key /\ call.resp.ok /\ call.dl) =>
         (call.out.result = "artifact" <=> (call.resp.b64 \/ call.resp.url))

IsPrefix(a, b) == Len(a) <= Len(b) /\ SubSeq(b, 1, Len(a)) = a

\* The log lines a step handler writes when it starts its step.
StepLines(R) == {n \in 1..Len(R.log) : R.log[n].tag \in {"capture", "nav", "send_last", "forward"}}

C31_Step == \A r \in RunIds : Async(impl) => IsPrefix(run[r].log, run'[r].log)

C31_State ==
  \A r \in RunIds :
    Async(impl) =>
      LET R == run[r]
      IN  /\ \A n, m \in StepLines(R) : n < m => R.log[n].s < R.log[m].s
          /\ \A n \in StepLines(R) :
               R.log[n].s \in 1..R.idx /\ R.log[n].tag = KindAt(r, R.log[n].s)
          /\ \A j \in StartedSet(r) : \E n \in StepLines(R) : R.log[n].s = j
          /\ Awaiting(R) => \E n \in StepLines(R) : R.log[n].s = R.idx

\* C31: the log of a run record is append-only (every turn leaves the old
\* log as a prefix of the new one, so its length never decreases and no
\* entry changes), the lines of the executed steps are in plan order, and a
\* step's line is in the log before the step's external call is awaited.
C31_AppendOnly == []C31_State /\ [][C31_Step]_vars

\* A run waits for the external call of its second step, the lines of both
\* steps are in the log; or a run that logged two steps has faulted.
C31_Witness ==
  \E r \in RunIds :
    /\ Async(impl)
    /\ Cardinality(StepLines(run[r])) >= 2
    /\ \/ Awaiting(run[r]) /\ run[r].idx = 2
       \/ run[r].status = "error" /\ Len(run[r].log) >= 3

Created(r) == run[r].status = "none" /\ run'[r].status # "none"

C32_State == HasCredits(impl) => credits >= 0

C32_Step ==
  HasCredits(impl) =>
    /\ credits' \in {credits, credits - StartCost}
    /\ (\E r \in RunIds : Created(r)) <=> credits' = credits - StartCost
    /\ (\E r \in RunIds : Created(r)) => credits >= StartCost
    /\ (resp' # resp /\ resp'.op = "post" /\ resp'.code = 402) =>
         credits' = credits /\ run' = run /\ credits < StartCost

\* C32: the balance of a user is never negative: POST /api/run is accepted
\* only with a balance of at least the price of a run and lowers it by
\* exactly that price, nothing the run does afterwards changes the balance,
\* and a request answered 402 leaves the balance and the run records alone.
C32_CreditsNotNegative == []C32_State /\ [][C32_Step]_vars

\* A user who signed up with the price of one run has run once, the balance
\* is zero and the next request was answered 402 without a record.
C32_Witness ==
  /\ HasCredits(impl)
  /\ credits = 0
  /\ Terminal(1)
  /\ run[2].status = "none"
  /\ resp.op = "post" /\ resp.code = 402

\* C33 (as claimed): a run that has reached done or error has no browser
\* that was launched for it and is still open or being closed.
C33_BrowserClosed ==
  \A r \in RunIds : Terminal(r) => run[r].browser \in {"none", "closed"}

ArtsOf(r) == {run[r].arts[n] : n \in 1..Len(run[r].arts)}

Captures(r) == {j \in 1..Len(run[r].plan) : KindAt(r, j) = "capture" /\ HasHandler(impl, "capture")}

\* C34 (as claimed): a run that went through its plan holds one artifact
\* reference for each of its capture steps, no reference is held twice, by
\* one run or by two, and every capture has its own file in the runs
\* directory.
C34_UniqueArtifacts ==
  /\ \A r \in RunIds :
       /\ run[r].status = "done" => Len(run[r].arts) = Cardinality(Captures(r))
       /\ Cardinality(ArtsOf(r)) = Len(run[r].arts)
  /\ \A r, q \in RunIds : r # q => ArtsOf(r) \cap ArtsOf(q) = {}
  /\ \A r \in RunIds : \A a \in ArtsOf(r) : \E n \in 1..Len(dir) : dir[n] = a
  /\ Len(dir) >= Cardinality(UNION {ArtsOf(r) : r \in RunIds})

====
